---- MODULE Spec2Model ----
(***************************************************************************)
(* A model of transport/grpc/server.go: the gRPC server wrapper of kratos. *)
(* The wrapper builds a grpc.Server whose unary interceptor chain is       *)
(* UnaryServerInterceptor(middleware), UnaryTimeoutInterceptor(timeout),   *)
(* and drives its lifecycle with Start (net.Listen + Serve) and Stop       *)
(* (GracefulStop).                                                         *)
(***************************************************************************)
EXTENDS Integers, Sequences, FiniteSets, TLC

\* ------------------------------------------------------------------ bounds
NumStarts == 2      \* threads that call Start
NumStops == 2       \* threads that call Stop
NumCalls == 2       \* inbound unary calls
MaxTime == 1        \* the clock runs 0..MaxTime
MaxIncoming == 2    \* a client deadline lies at most this far after arrival
MaxNeed == 2        \* a handler needs at most this long for its work
MaxOpts == 2        \* NewServer is given at most this many options

\* time.Second, in clock ticks
Second == 2

Starters == 1..NumStarts
Stoppers == 1..NumStops
Calls == 1..NumCalls

VARIABLES
    opts,       \* the options NewServer was given
    srv,        \* the wrapper's fields: lis, network, address, timeout, middleware, grpcOpts
    grpcSrv,    \* the embedded *grpc.Server: interceptors, quit, done, lis, conns
    sockets,    \* the listening socket each Start call bound: none / open / closed
    startPc,    \* where each Start call stands
    startRet,   \* what each Start call returned
    stopPc,     \* where each Stop call stands
    stopRet,    \* what each Stop call returned
    calls,      \* the inbound calls; beforeStop: in flight when a Stop call was made
    now,        \* the clock
    ep,         \* the Endpoint call: where it stands and what it returned
    crashed     \* a fault escaped a handler goroutine: the process is gone

vars == <<opts, srv, grpcSrv, sockets, startPc, startRet, stopPc, stopRet,
          calls, now, ep, crashed>>

\* ----------------------------------------------------------------- options
Network(network) == [field |-> "network", value |-> network]

Address(addr) == [field |-> "address", value |-> addr]

Timeout(timeout) == [field |-> "timeout", value |-> timeout]

Middleware(m) == [field |-> "middleware", value |-> m]

Options(o) == [field |-> "grpcOpts", value |-> o]

\* o(srv): a ServerOption assigns its one field
ApplyOption(s, o) ==
    CASE o.field = "network" -> [s EXCEPT !.network = o.value]
      [] o.field = "address" -> [s EXCEPT !.address = o.value]
      [] o.field = "timeout" -> [s EXCEPT !.timeout = o.value]
      [] o.field = "middleware" -> [s EXCEPT !.middleware = o.value]
      [] o.field = "grpcOpts" -> [s EXCEPT !.grpcOpts = o.value]

\* middleware.Chain(outer, others...): outer wraps others[1] wraps others[2] ...
\* A middleware value is nil or the sequence of its layers, outermost first.
Chain(outer, others) == [nil |-> FALSE, layers |-> <<outer>> \o others]

NilMiddleware == [nil |-> TRUE, layers |-> <<>>]

\* a default chain that leaves recovery out
StatusOnlyMiddleware == Chain("status", <<>>)

\* the chain NewServer installs when no Middleware option is given
DefaultMiddleware == Chain("status", <<"recovery">>)

\* a constructor that leaves the timeout at its zero value
DefaultServerNoTimeout ==
    [lis |-> {}, network |-> "tcp", address |-> ":0", timeout |-> 0,
     middleware |-> DefaultMiddleware, grpcOpts |-> <<>>]

DefaultServer ==
    [lis |-> {}, network |-> "tcp", address |-> ":0", timeout |-> Second,
     middleware |-> DefaultMiddleware, grpcOpts |-> <<>>]

\* an option loop in which the first option to target a field wins
RECURSIVE ApplyOptionsFirstWins(_, _)
ApplyOptionsFirstWins(s, os) ==
    IF os = <<>> THEN s ELSE ApplyOption(ApplyOptionsFirstWins(s, Tail(os)), Head(os))

RECURSIVE ApplyOptions(_, _)
ApplyOptions(s, os) ==
    IF os = <<>> THEN s ELSE ApplyOptions(ApplyOption(s, Head(os)), Tail(os))

UnaryServerInterceptor(m) == [kind |-> "server", m |-> m]

UnaryTimeoutInterceptor(timeout) == [kind |-> "timeout", timeout |-> timeout]

\* an interceptor chain that leaves the timeout interceptor out
InterceptorsNoTimeout(s) == <<UnaryServerInterceptor(s.middleware)>>

\* grpc.ChainUnaryInterceptor: the first interceptor is the outermost one
Interceptors(s) ==
    <<UnaryServerInterceptor(s.middleware), UnaryTimeoutInterceptor(s.timeout)>>

\* grpc.NewServer(grpcOpts...): nothing listens, nothing is stopped
NewGrpcServer(s) ==
    [interceptors |-> Interceptors(s), opts |-> s.grpcOpts,
     quit |-> FALSE, done |-> FALSE, lis |-> {}, lisNil |-> FALSE,
     connsNil |-> FALSE]

NewServer(os) == ApplyOptions(DefaultServer, os)

\* ---------------------------------------------------------------- contexts
\* An optional value is the empty set or a singleton.
\* context.Background() with the deadline the client sent, if any
BaseContext(incoming) == [transport |-> {}, info |-> {}, deadline |-> incoming]

\* a WithTimeout that overwrites the deadline it was given
WithTimeoutOverwrite(parent, timeout, t) == [parent EXCEPT !.deadline = {t + timeout}]

\* context.WithTimeout(parent, timeout) at time t: WithDeadline(parent, t + timeout),
\* which keeps the parent's deadline when that one is already earlier
WithTimeout(parent, timeout, t) ==
    LET d == t + timeout
    IN  IF \E cur \in parent.deadline : cur < d
        THEN parent
        ELSE [parent EXCEPT !.deadline = {d}]

\* an enricher that tags the transport kind and leaves the call's info out
EnrichTransportOnly(ctx, info) == [ctx EXCEPT !.transport = {"GRPC"}]

\* transport.NewContext(ctx, Transport{Kind: "GRPC"}), then
\* NewContext(ctx, ServerInfo{Server: info.Server, FullMethod: info.FullMethod})
Enrich(ctx, info) ==
    [ctx EXCEPT !.transport = {"GRPC"},
                !.info = {[Server |-> info.Server, FullMethod |-> info.FullMethod]}]

\* grpc.UnaryServerInfo of call c: every call has its own method name
UnaryServerInfo(c) == [Server |-> "service", FullMethod |-> c]

\* --------------------------------------------------------------- pipeline
\* The way in. The stages a call enters, outermost first, each with the context
\* it is invoked with; the last one is the terminal handler.
MiddlewareEntries(m, ctx) ==
    IF m.nil THEN <<>>
    ELSE [i \in 1..Len(m.layers) |-> [stage |-> m.layers[i], ctx |-> ctx]]

RECURSIVE Enter(_, _, _, _, _)
Enter(ics, i, ctx, c, t) ==
    IF i > Len(ics)
    THEN <<[stage |-> "handler", ctx |-> ctx]>>
    ELSE IF ics[i].kind = "timeout"
    THEN <<[stage |-> "timeout", ctx |-> ctx]>>
         \o Enter(ics, i + 1, WithTimeout(ctx, ics[i].timeout, t), c, t)
    ELSE LET ctx2 == Enrich(ctx, UnaryServerInfo(c))
         IN  <<[stage |-> "enrich", ctx |-> ctx]>>
             \o MiddlewareEntries(ics[i].m, ctx2)
             \o Enter(ics, i + 1, ctx2, c, t)

\* What the terminal handler can do: return a reply, return an application
\* error, return an error value whose translation faults, or panic.
Outcomes == {"ok", "rawErr", "badErr", "panic"}

\* ctx.Err() of a handler that watched its context run out: context.DeadlineExceeded
DeadlineExceeded == "deadlineErr"

\* status.Server(): an error coming back is translated to a gRPC status error
StatusServer(r) ==
    CASE r = "badErr" -> "panic"
      [] r \in {"rawErr", "recoveredErr"} -> "statusErr"
      [] r = DeadlineExceeded -> "statusDeadline"
      [] OTHER -> r

\* recovery.Recovery(): a panic of the wrapped handler becomes an error
Recovery(r) == IF r = "panic" THEN "recoveredErr" ELSE r

\* a timeout stage that answers with the deadline error whatever came back
LeaveStageForcedTimeout(stage, r) ==
    CASE stage = "status" -> StatusServer(r)
      [] stage = "recovery" -> Recovery(r)
      [] stage = "timeout" -> DeadlineExceeded
      [] OTHER -> r

\* The way out of one stage: what it hands back, given what came back to it.
\* The timeout interceptor returns handler(ctx, req) as it is.
LeaveStage(stage, r) ==
    CASE stage = "status" -> StatusServer(r)
      [] stage = "recovery" -> Recovery(r)
      [] OTHER -> r

\* The way out: the result unwinds from stage k to the outermost one.
RECURSIVE Leave(_, _, _)
Leave(log, k, r) ==
    IF k = 0 THEN r ELSE Leave(log, k - 1, LeaveStage(log[k].stage, r))

\* ------------------------------------------------------------------ state
IdleCall ==
    [st |-> "idle", t0 |-> 0, log |-> <<>>, outcome |-> "", result |-> "",
     beforeStop |-> FALSE, need |-> 0, observes |-> FALSE,
     derived |-> 0, enforced |-> "", late |-> FALSE]

\* the option lists the server is constructed with
OptLists ==
    { <<>>,
      <<Timeout(1)>>,
      <<Timeout(0), Address(":9000")>>,
      <<Middleware(NilMiddleware)>>,
      <<Middleware(Chain("logging", <<>>))>> }

InitWith(lists) ==
    /\ opts \in lists
    /\ srv = NewServer(opts)
    /\ grpcSrv = NewGrpcServer(srv)
    /\ sockets = [s \in Starters |-> "none"]
    /\ startPc = [s \in Starters |-> "idle"]
    /\ startRet = [s \in Starters |-> ""]
    /\ stopPc = [t \in Stoppers |-> "idle"]
    /\ stopRet = [t \in Stoppers |-> ""]
    /\ calls = [c \in Calls |-> IdleCall]
    /\ now = 0
    /\ ep = [pc |-> "idle", url |-> <<>>, err |-> ""]
    /\ crashed = FALSE

Init == InitWith(OptLists)

\* the lifecycle state of section 4.5, read off the server
LifecycleState ==
    IF grpcSrv.done THEN "Stopped"
    ELSE IF grpcSrv.quit THEN "Draining"
    ELSE IF \E s \in Starters : sockets[s] # "none" THEN "Listening"
    ELSE "Unstarted"

InFlight == {c \in Calls : calls[c].st = "running"}

\* ------------------------------------------------------------------ Start
\* net.SplitHostPort on the addresses the server is configured with
SplitHostPort(addr) ==
    CASE addr = ":0" -> [host |-> "", port |-> "0"]
      [] addr = ":9000" -> [host |-> "", port |-> "9000"]
      [] addr = "127.0.0.1:0" -> [host |-> "127.0.0.1", port |-> "0"]

\* net.Listen(s.network, s.address): a fixed port can be bound once at a time,
\* and any bind can fail (another process holds the address)
CanBind ==
    /\ srv.network # ""
    /\ \/ SplitHostPort(srv.address).port = "0"
       \/ \A s \in Starters : sockets[s] # "open"

\* a Start that assigns s.lis before it looks at the error
StartListenAssignFirst(s) ==
    /\ ~crashed
    /\ startPc[s] = "idle"
    /\ srv' = [srv EXCEPT !.lis = {s}]
    /\ \/ /\ CanBind
          /\ sockets' = [sockets EXCEPT ![s] = "open"]
          /\ startPc' = [startPc EXCEPT ![s] = "bound"]
          /\ UNCHANGED startRet
       \/ /\ startPc' = [startPc EXCEPT ![s] = "returned"]
          /\ startRet' = [startRet EXCEPT ![s] = "bindErr"]
          /\ UNCHANGED sockets
    /\ UNCHANGED <<opts, ep, grpcSrv, stopPc, stopRet, calls, now, crashed>>

\* lis, err := net.Listen(...); if err != nil { return err }
StartListen(s) ==
    /\ ~crashed
    /\ startPc[s] = "idle"
    /\ \/ /\ CanBind
          /\ sockets' = [sockets EXCEPT ![s] = "open"]
          /\ startPc' = [startPc EXCEPT ![s] = "bound"]
          /\ UNCHANGED startRet
       \/ /\ startPc' = [startPc EXCEPT ![s] = "returned"]
          /\ startRet' = [startRet EXCEPT ![s] = "bindErr"]
          /\ UNCHANGED sockets
    /\ UNCHANGED <<opts, ep, srv, grpcSrv, stopPc, stopRet, calls, now, crashed>>

\* a Start that also stores an address of its own in the configuration
StartSetLisAndAddress(s) ==
    /\ ~crashed
    /\ startPc[s] = "bound"
    /\ srv' = [srv EXCEPT !.lis = {s}, !.address = ":9000"]
    /\ startPc' = [startPc EXCEPT ![s] = "listening"]
    /\ UNCHANGED <<opts, ep, grpcSrv, sockets, startRet, stopPc, stopRet,
                   calls, now, crashed>>

\* s.lis = lis
StartSetLis(s) ==
    /\ ~crashed
    /\ startPc[s] = "bound"
    /\ srv' = [srv EXCEPT !.lis = {s}]
    /\ startPc' = [startPc EXCEPT ![s] = "listening"]
    /\ UNCHANGED <<opts, ep, grpcSrv, sockets, startRet, stopPc, stopRet,
                   calls, now, crashed>>

\* return s.Serve(lis), entry: after Stop or GracefulStop, Serve closes the
\* listener and returns ErrServerStopped; otherwise it registers the listener
\* and enters the accept loop
StartServe(s) ==
    /\ ~crashed
    /\ startPc[s] = "listening"
    /\ IF grpcSrv.lisNil
       THEN /\ sockets' = [sockets EXCEPT ![s] = "closed"]
            /\ startPc' = [startPc EXCEPT ![s] = "returned"]
            /\ startRet' = [startRet EXCEPT ![s] = "ErrServerStopped"]
            /\ UNCHANGED grpcSrv
       ELSE /\ grpcSrv' = [grpcSrv EXCEPT !.lis = @ \cup {s}]
            /\ startPc' = [startPc EXCEPT ![s] = "serving"]
            /\ UNCHANGED <<sockets, startRet>>
    /\ UNCHANGED <<opts, ep, srv, stopPc, stopRet, calls, now, crashed>>

\* return s.Serve(lis): Accept fails though nobody stopped the server
ServeAcceptError(s) ==
    /\ ~crashed
    /\ startPc[s] = "serving"
    /\ ~grpcSrv.quit
    /\ sockets' = [sockets EXCEPT ![s] = "closed"]
    /\ grpcSrv' = [grpcSrv EXCEPT !.lis = @ \ {s}]
    /\ startPc' = [startPc EXCEPT ![s] = "returned"]
    /\ startRet' = [startRet EXCEPT ![s] = "acceptErr"]
    /\ UNCHANGED <<opts, ep, srv, stopPc, stopRet, calls, now, crashed>>

\* return s.Serve(lis): GracefulStop closed the listener, the accept loop ends
ServeQuit(s) ==
    /\ ~crashed
    /\ startPc[s] = "serving"
    /\ grpcSrv.quit
    /\ sockets[s] = "closed"
    /\ startPc' = [startPc EXCEPT ![s] = "waitDone"]
    /\ UNCHANGED <<opts, ep, srv, grpcSrv, sockets, startRet, stopPc, stopRet,
                   calls, now, crashed>>

\* return s.Serve(lis): Serve waits for the stop to finish and returns nil
ServeReturn(s) ==
    /\ ~crashed
    /\ startPc[s] = "waitDone"
    /\ grpcSrv.done
    /\ startPc' = [startPc EXCEPT ![s] = "returned"]
    /\ startRet' = [startRet EXCEPT ![s] = "nil"]
    /\ UNCHANGED <<opts, ep, srv, grpcSrv, sockets, stopPc, stopRet,
                   calls, now, crashed>>

\* ------------------------------------------------------------------- Stop
\* a Stop that calls the hard grpc Stop: the calls in flight are cut off
StopBeginHard(t) ==
    /\ ~crashed
    /\ stopPc[t] = "idle"
    /\ calls' = [c \in Calls |->
                   IF c \in InFlight
                   THEN [calls[c] EXCEPT !.beforeStop = TRUE, !.st = "aborted"]
                   ELSE calls[c]]
    /\ grpcSrv' = [grpcSrv EXCEPT !.quit = TRUE, !.lis = {}, !.lisNil = TRUE]
    /\ sockets' = [s \in Starters |->
                      IF s \in grpcSrv.lis THEN "closed" ELSE sockets[s]]
    /\ stopPc' = [stopPc EXCEPT ![t] = "draining"]
    /\ UNCHANGED <<opts, ep, srv, startPc, startRet, stopRet, now, crashed>>

\* a Stop that only logs: the server is never told to stop
StopBeginLogOnly(t) ==
    /\ ~crashed
    /\ stopPc[t] = "idle"
    /\ stopPc' = [stopPc EXCEPT ![t] = "draining"]
    /\ UNCHANGED <<opts, ep, srv, grpcSrv, sockets, startPc, startRet, stopRet, calls,
                   now, crashed>>

\* a Stop that faults when the server is already stopping
StopBeginOnce(t) ==
    /\ ~crashed
    /\ stopPc[t] = "idle"
    /\ IF grpcSrv.quit
       THEN /\ crashed' = TRUE
            /\ UNCHANGED <<grpcSrv, sockets, stopPc>>
       ELSE /\ grpcSrv' = [grpcSrv EXCEPT !.quit = TRUE, !.lis = {}, !.lisNil = TRUE]
            /\ sockets' = [s \in Starters |->
                              IF s \in grpcSrv.lis THEN "closed" ELSE sockets[s]]
            /\ stopPc' = [stopPc EXCEPT ![t] = "draining"]
            /\ UNCHANGED crashed
    /\ UNCHANGED <<opts, ep, srv, startPc, startRet, stopRet, calls, now>>

\* s.GracefulStop(), first half: quit fires, the listeners are closed, no new
\* call is admitted; a server that is already stopped returns at once
StopBegin(t) ==
    /\ ~crashed
    /\ stopPc[t] = "idle"
    /\ calls' = [c \in Calls |->
                   IF c \in InFlight THEN [calls[c] EXCEPT !.beforeStop = TRUE]
                   ELSE calls[c]]
    /\ IF grpcSrv.connsNil
       THEN /\ grpcSrv' = [grpcSrv EXCEPT !.quit = TRUE, !.done = TRUE]
            /\ stopPc' = [stopPc EXCEPT ![t] = "returned"]
            /\ stopRet' = [stopRet EXCEPT ![t] = "nil"]
            /\ UNCHANGED sockets
       ELSE /\ grpcSrv' = [grpcSrv EXCEPT !.quit = TRUE, !.lis = {}, !.lisNil = TRUE]
            /\ sockets' = [s \in Starters |->
                              IF s \in grpcSrv.lis THEN "closed" ELSE sockets[s]]
            /\ stopPc' = [stopPc EXCEPT ![t] = "draining"]
            /\ UNCHANGED stopRet
    /\ UNCHANGED <<opts, ep, srv, startPc, startRet, now, crashed>>

\* s.GracefulStop(), second half: it waits for the serve loops to leave and
\* for the calls in flight to finish; then Stop logs and returns nil
StopReturn(t) ==
    /\ ~crashed
    /\ stopPc[t] = "draining"
    /\ \A s \in Starters : startPc[s] # "serving"
    /\ InFlight = {}
    /\ grpcSrv' = [grpcSrv EXCEPT !.connsNil = TRUE, !.done = TRUE]
    /\ stopPc' = [stopPc EXCEPT ![t] = "returned"]
    /\ stopRet' = [stopRet EXCEPT ![t] = "nil"]
    /\ UNCHANGED <<opts, ep, srv, sockets, startPc, startRet, calls, now, crashed>>

\* --------------------------------------------------------------- Endpoint
\* the port a listener is bound to: the configured one, or one the kernel chose
ListenerPort(s) ==
    LET port == SplitHostPort(srv.address).port
    IN  IF port = "0" THEN <<"ephemeral", s>> ELSE <<port>>

\* host.Extract(address, lis): the results it can give. The port is the
\* listener's when there is one; a wildcard host is replaced by a discovered
\* one, which can fail while no socket is bound.
Extract(address, lis) ==
    LET hp == SplitHostPort(address)
        port == IF lis = {} THEN <<hp.port>> ELSE ListenerPort(CHOOSE s \in lis : TRUE)
    IN  IF hp.host # ""
        THEN {[addr |-> <<hp.host>> \o port, err |-> "nil"]}
        ELSE {[addr |-> <<"10.0.0.1">> \o port, err |-> "nil"]}
             \cup (IF lis = {} THEN {[addr |-> <<>>, err |-> "resolveErr"]} ELSE {})

\* fmt.Sprintf("grpc://%s", addr)
Sprintf(addr) == <<"grpc://">> \o addr

\* Endpoint is called
EndpointCall ==
    /\ ~crashed
    /\ ep.pc = "idle"
    /\ ep' = [ep EXCEPT !.pc = "called"]
    /\ UNCHANGED <<opts, srv, grpcSrv, sockets, startPc, startRet, stopPc, stopRet,
                   calls, now, crashed>>

\* an Endpoint that formats whatever Extract gave it
EndpointNoErrCheck ==
    /\ ~crashed
    /\ ep.pc = "called"
    /\ \E r \in Extract(srv.address, srv.lis) :
           ep' = [pc |-> "returned", url |-> Sprintf(r.addr), err |-> r.err]
    /\ UNCHANGED <<opts, srv, grpcSrv, sockets, startPc, startRet, stopPc, stopRet,
                   calls, now, crashed>>

\* addr, err := host.Extract(s.address, s.lis); if err != nil { return "", err };
\* return fmt.Sprintf("grpc://%s", addr), err
EndpointReturn ==
    /\ ~crashed
    /\ ep.pc = "called"
    /\ \E r \in Extract(srv.address, srv.lis) :
           ep' = IF r.err # "nil"
                 THEN [pc |-> "returned", url |-> <<>>, err |-> r.err]
                 ELSE [pc |-> "returned", url |-> Sprintf(r.addr), err |-> r.err]
    /\ UNCHANGED <<opts, srv, grpcSrv, sockets, startPc, startRet, stopPc, stopRet,
                   calls, now, crashed>>

\* Start's write of s.lis and Endpoint's read of it are not ordered by any
\* lock. Read before or after the write, Endpoint sees the old or the new
\* value (EndpointReturn); read during it, it can see an interface value with
\* the new type word and the old nil data word, and the Addr call on it
\* dereferences nil: the process dies.
Racing == ep.pc = "called" /\ \E s \in Starters : startPc[s] = "bound"

EndpointTornRead ==
    /\ ~crashed
    /\ Racing
    /\ crashed' = TRUE
    /\ UNCHANGED <<opts, ep, srv, grpcSrv, sockets, startPc, startRet, stopPc, stopRet,
                   calls, now>>

\* ------------------------------------------------------------------ calls
\* A call is admitted while a serve loop accepts and no stop has begun.
Accepting ==
    /\ ~grpcSrv.quit
    /\ \E s \in Starters : startPc[s] = "serving" /\ sockets[s] = "open"

\* the deadlines a client can send with a call that arrives now
IncomingDeadlines == {{}} \cup {{now + k} : k \in 0..MaxIncoming}

\* ctx, cancel := context.WithTimeout(ctx, timeout): each timeout interceptor
\* of the chain derives one context that lives until it is cancelled
Derived(ics) == Cardinality({i \in 1..Len(ics) : ics[i].kind = "timeout"})

\* a cancel() written after the handler call: a panic skips it
CancelAfterCall(derived, r) == IF r = "panic" THEN derived ELSE 0

\* defer cancel(): runs when the interceptor returns and when a panic unwinds it
DeferCancel(derived, r) == 0

\* what the timeout interceptor, the stage right above the terminal handler,
\* hands back when the handler ends with r
TimeoutReturns(log, r) == LeaveStage(log[Len(log) - 1].stage, r)


\* A call arrives and the interceptor chain runs down to the terminal handler:
\* UnaryServerInterceptor enriches the context and enters the middleware, whose
\* innermost handler is the next interceptor, UnaryTimeoutInterceptor, which
\* derives the deadline and calls the terminal handler. The handler needs
\* `need` ticks for its work and watches its context or does not.
Dispatch(c, incoming, need, observes) ==
    /\ ~crashed
    /\ calls[c].st = "idle"
    /\ Accepting
    /\ calls' = [calls EXCEPT ![c] =
                   [IdleCall EXCEPT
                      !.st = "running", !.t0 = now,
                      !.log = Enter(grpcSrv.interceptors, 1, BaseContext(incoming), c, now),
                      !.need = need, !.observes = observes,
                      !.derived = Derived(grpcSrv.interceptors)]]
    /\ UNCHANGED <<opts, ep, srv, grpcSrv, sockets, startPc, startRet, stopPc, stopRet,
                   now, crashed>>

\* a call whose handler returns whenever it likes
Admit(c, incoming) == Dispatch(c, incoming, 0, FALSE)

\* a call whose handler has work of a given length
AdmitWorking(c, need, observes) == Dispatch(c, {}, need, observes)

\* the deadline of the context the terminal handler runs under
HandlerDeadline(c) == calls[c].log[Len(calls[c].log)].ctx.deadline

\* A handler that watches its context, whose deadline has come before its work
\* is done: it is about to give up.
Overdue(c) ==
    /\ calls[c].st = "running"
    /\ calls[c].observes
    /\ \E d \in HandlerDeadline(c) : d <= now /\ d < calls[c].t0 + calls[c].need

\* A call arrives while nothing accepts: the transport refuses it.
Refuse(c) ==
    /\ ~crashed
    /\ calls[c].st = "idle"
    /\ ~Accepting
    /\ calls' = [calls EXCEPT ![c].st = "refused"]
    /\ UNCHANGED <<opts, ep, srv, grpcSrv, sockets, startPc, startRet, stopPc, stopRet,
                   now, crashed>>

\* The terminal handler ends and its result unwinds through the timeout
\* interceptor (defer cancel()), the middleware and the root interceptor. A
\* panic that nothing recovers ends the process.
Return(c, outcome) ==
    /\ ~crashed
    /\ calls[c].st = "running"
    /\ LET log == calls[c].log
           r == Leave(log, Len(log) - 1, outcome)
       IN  /\ calls' = [calls EXCEPT ![c] =
                          [IdleCall EXCEPT !.st = "done", !.outcome = outcome,
                                           !.result = r,
                                           !.beforeStop = calls[c].beforeStop,
                                           !.derived = DeferCancel(calls[c].derived, outcome),
                                           !.enforced = TimeoutReturns(log, outcome),
                                           !.late = \E d \in log[Len(log)].ctx.deadline : d < now]]
           /\ crashed' = (r = "panic")
    /\ UNCHANGED <<opts, ep, srv, grpcSrv, sockets, startPc, startRet, stopPc, stopRet,
                   now>>

\* the handler's work is done and it returns
HandlerReturn(c, outcome) ==
    /\ now >= calls[c].t0 + calls[c].need
    /\ Return(c, outcome)

\* the handler sees its context's deadline pass and returns ctx.Err()
HandlerGivesUp(c) ==
    /\ Overdue(c)
    /\ Return(c, DeadlineExceeded)

\* time passes
Tick ==
    /\ ~crashed
    /\ now < MaxTime
    /\ \A c \in Calls : ~Overdue(c)
    /\ now' = now + 1
    /\ UNCHANGED <<opts, ep, srv, grpcSrv, sockets, startPc, startRet, stopPc, stopRet,
                   calls, crashed>>

\* ---------------------------------------------------------- specifications
\* The steps of the server with the given Start threads, Stop threads, client
\* deadlines and handler outcomes.
Step(starters, stoppers, outcomes) ==
    \/ \E s \in starters : StartListen(s)
    \/ \E s \in starters : StartSetLis(s)
    \/ \E s \in starters : StartServe(s)
    \/ \E s \in starters : ServeAcceptError(s)
    \/ \E s \in starters : ServeQuit(s)
    \/ \E s \in starters : ServeReturn(s)
    \/ \E t \in stoppers : StopBegin(t)
    \/ \E t \in stoppers : StopReturn(t)
    \/ \E c \in Calls : Refuse(c)
    \/ \E c \in Calls, outcome \in outcomes : HandlerReturn(c, outcome)

First(S) == {x \in S : \A y \in S : x <= y}

\* One Start and one Stop; calls with every client deadline and every handler
\* outcome, under a running clock.
Next ==
    \/ Step(First(Starters), First(Stoppers), Outcomes)
    \/ \E c \in Calls, incoming \in IncomingDeadlines : Admit(c, incoming)
    \/ Tick

Spec == Init /\ [][Next]_vars

\* One Start and one Stop; calls whose handlers have work of some length and
\* watch their context or do not, under a running clock.
NextTimed ==
    \/ Step(First(Starters), First(Stoppers), {"ok"})
    \/ \E c \in Calls, need \in 0..MaxNeed, observes \in BOOLEAN :
           AdmitWorking(c, need, observes)
    \/ \E c \in Calls : HandlerGivesUp(c)
    \/ Tick

SpecTimed == Init /\ [][NextTimed]_vars

\* Every option list up to a length; one Start, one Stop, one call and one
\* Endpoint call.
OptionValues ==
    { Network("tcp4"), Network(""), Address(":0"), Address(":9000"),
      Address("127.0.0.1:0"), Timeout(0), Timeout(1), Middleware(NilMiddleware),
      Options(<<"creds">>) }

AllOptLists == UNION {[1..n -> OptionValues] : n \in 0..MaxOpts}

InitConfig == InitWith(AllOptLists)

NextConfig ==
    \/ \E s \in First(Starters) : StartListen(s)
    \/ \E s \in First(Starters) : StartSetLis(s)
    \/ \E s \in First(Starters) : StartServe(s)
    \/ \E s \in First(Starters) : ServeAcceptError(s)
    \/ \E s \in First(Starters) : ServeQuit(s)
    \/ \E s \in First(Starters) : ServeReturn(s)
    \/ \E t \in First(Stoppers) : StopBegin(t)
    \/ \E t \in First(Stoppers) : StopReturn(t)
    \/ \E c \in First(Calls) : Admit(c, {})
    \/ \E c \in First(Calls) : Refuse(c)
    \/ \E c \in First(Calls) : HandlerReturn(c, "ok")
    \/ EndpointCall
    \/ EndpointReturn
    \/ EndpointTornRead

SpecConfig == InitConfig /\ [][NextConfig]_vars

\* Any number of Start and Stop calls; handlers that return.
InitLifecycle == InitWith({<<>>, <<Address(":9000")>>})

NextLifecycle ==
    \/ Step(Starters, Stoppers, {"ok"})
    \/ \E c \in Calls : Admit(c, {})

SpecLifecycle == InitLifecycle /\ [][NextLifecycle]_vars

\* One Start and any number of Stop calls, scheduled fairly: a serve loop, a
\* pending GracefulStop and a running handler each take their next step.
NextStop ==
    \/ Step(First(Starters), Stoppers, {"ok"})
    \/ \E c \in Calls : Admit(c, {})

Fairness ==
    /\ \A s \in Starters : WF_vars(StartSetLis(s))
    /\ \A s \in Starters : WF_vars(StartServe(s))
    /\ \A s \in Starters : WF_vars(ServeQuit(s))
    /\ \A s \in Starters : WF_vars(ServeReturn(s))
    /\ \A t \in Stoppers : WF_vars(StopReturn(t))
    /\ \A c \in Calls : WF_vars(HandlerReturn(c, "ok"))

FairStop == InitLifecycle /\ [][NextStop]_vars /\ Fairness

\* ------------------------------------------------------------- properties
Running(c) == calls[c].st = "running"

Done(c) == calls[c].st = "done"

\* no Middleware option was given: the server runs the default chain
NoMiddlewareOption == \A i \in 1..Len(opts) : opts[i].field # "middleware"

\* where a stage stands in a call's log
StageIndex(log, name) == CHOOSE i \in 1..Len(log) : log[i].stage = name

MiddlewareStages == {"status", "recovery", "logging"}

\* C1: every call passes the enricher, then the timeout enforcer, then the
\* middleware chain, then the terminal handler; so every middleware is invoked
\* with a context that already carries the timeout-derived deadline.
C1_PipelineOrder ==
    \A c \in Calls :
        Running(c) =>
            LET log == calls[c].log
                enrich == StageIndex(log, "enrich")
                timeout == StageIndex(log, "timeout")
                handler == StageIndex(log, "handler")
            IN  /\ enrich < timeout
                /\ timeout < handler
                /\ \A i \in 1..Len(log) :
                       log[i].stage \in MiddlewareStages =>
                           /\ timeout < i
                           /\ i < handler
                           /\ log[i].ctx.deadline # {}
                           /\ log[i].ctx.deadline = log[handler].ctx.deadline

\* C2: with the default chain, a call whose terminal handler panics ends with
\* an error result, the panic does not end the process, and the server goes on
\* accepting calls, for any number of such calls at once.
C2_HandlerFaultContained ==
    /\ [](NoMiddlewareOption =>
            /\ \A c \in Calls :
                   (Done(c) /\ calls[c].outcome = "panic") =>
                       calls[c].result \in {"statusErr", "recoveredErr"}
            /\ crashed => \E c \in Calls : Done(c) /\ calls[c].outcome # "panic"
                                             /\ calls[c].result = "panic")
    /\ [][\A c \in Calls :
              (NoMiddlewareOption /\ Running(c) /\ Done(c)' /\ calls'[c].outcome = "panic") =>
                  /\ ~crashed'
                  /\ Accepting' = Accepting
                  /\ \A d \in Calls \ {c} : calls'[d] = calls[d]]_vars

\* Every call's handler has panicked, all of them at once, and the server still accepts.
C2_Witness ==
    /\ NoMiddlewareOption
    /\ \A c \in Calls : Done(c) /\ calls[c].outcome = "panic" /\ calls[c].result = "statusErr"
    /\ Accepting
    /\ ~crashed

\* C3: in the default chain recovery catches a fault raised by status
\* translation, by an inner middleware or by the terminal handler: such a call
\* ends with an error result and the fault does not leave the composed handler.
C3_RecoveryCatchesAll ==
    NoMiddlewareOption =>
        /\ ~crashed
        /\ \A c \in Calls :
               (Done(c) /\ calls[c].outcome \in {"badErr", "panic"}) =>
                   calls[c].result \in {"statusErr", "recoveredErr"}

\* C10: the context the timeout enforcer hands on has the deadline
\* min(now + D, incoming deadline): now + D when the incoming context has no
\* deadline or a later one, the incoming deadline when that one is nearer.
C10_DeadlineIntersection ==
    \A c \in Calls :
        Running(c) =>
            LET log == calls[c].log
                k == StageIndex(log, "timeout")
                incoming == log[k].ctx.deadline
                derived == log[k + 1].ctx.deadline
                d == calls[c].t0 + srv.timeout
            IN  IF incoming = {} THEN derived = {d}
                ELSE \E cur \in incoming : derived = {IF cur < d THEN cur ELSE d}

\* A call whose client deadline is nearer than now + D keeps it, and one whose
\* client deadline is later gets now + D.
C10_Witness ==
    /\ \E c \in Calls :
           /\ Running(c)
           /\ LET log == calls[c].log
                  k == StageIndex(log, "timeout")
              IN  /\ \E cur \in log[k].ctx.deadline : cur < calls[c].t0 + srv.timeout
                  /\ log[k + 1].ctx.deadline = log[k].ctx.deadline
    /\ \E c \in Calls :
           /\ Running(c)
           /\ LET log == calls[c].log
                  k == StageIndex(log, "timeout")
              IN  /\ \E cur \in log[k].ctx.deadline : cur > calls[c].t0 + srv.timeout
                  /\ log[k + 1].ctx.deadline = {calls[c].t0 + srv.timeout}

\* C4: Stop returns only after every call that was in flight when Stop was
\* called has completed; such a call is never cut off; and no call that arrives
\* after a Stop began is admitted.
C4_StopDrains ==
    /\ [](\A t \in Stoppers :
              stopPc[t] = "returned" =>
                  \A c \in Calls : calls[c].beforeStop => Done(c))
    /\ [][\A c \in Calls :
              /\ Running(c) => (Running(c)' \/ Done(c)')
              /\ (grpcSrv.quit /\ ~Running(c)) => ~Running(c)']_vars

\* A Stop has returned; one call was in flight when it was made and is done,
\* another arrived later and was refused.
C4_Witness ==
    /\ \E t \in Stoppers : stopPc[t] = "returned"
    /\ \E c \in Calls : calls[c].beforeStop /\ Done(c)
    /\ \E c \in Calls : calls[c].st = "refused"

\* C5: when Stop is called while Start is blocked in the serve loop, and the
\* calls in flight finish, the server reaches Stopped and Start returns nil.
C5_StopEndsStart ==
    \A s \in Starters :
        (startPc[s] = "serving" /\ \E t \in Stoppers : stopPc[t] = "draining")
            ~> (LifecycleState = "Stopped" /\ startPc[s] = "returned"
                /\ startRet[s] = "nil")

\* Start was serving calls, Stop drained one, and Start has returned nil.
C5_Witness ==
    /\ LifecycleState = "Stopped"
    /\ \E s \in Starters : startPc[s] = "returned" /\ startRet[s] = "nil"
    /\ \E c \in Calls : calls[c].beforeStop /\ Done(c)

\* C6: Start returns a non-nil error only when the bind failed or the accept
\* loop ended abnormally; whenever a Stop call is what ends the server, also
\* one made before Start reaches the serve loop, Start returns nil.
C6_StartErrorOnly ==
    \A s \in Starters :
        startPc[s] = "returned" => startRet[s] \in {"nil", "bindErr", "acceptErr"}

\* C7: a Start that cannot bind returns the bind error at once and changes
\* nothing: the lifecycle state stays where it was (Unstarted when nothing else
\* ran), s.lis is not set, the serve loop is not entered, no call is dispatched.
C7_BindFailure ==
    /\ [][\A s \in Starters :
              (startPc[s] = "idle" /\ startRet'[s] = "bindErr") =>
                  /\ startPc'[s] = "returned"
                  /\ srv' = srv
                  /\ grpcSrv' = grpcSrv
                  /\ sockets' = sockets
                  /\ calls' = calls
                  /\ LifecycleState' = LifecycleState]_vars
    /\ [](\A s \in Starters :
              startRet[s] = "bindErr" =>
                  /\ startPc[s] = "returned"
                  /\ sockets[s] = "none"
                  /\ s \notin srv.lis
                  /\ s \notin grpcSrv.lis)
    /\ []((/\ \A s \in Starters : (startPc[s] = "idle" \/ startRet[s] = "bindErr")
            /\ \A t \in Stoppers : stopPc[t] = "idle")
           => (/\ LifecycleState = "Unstarted"
               /\ srv.lis = {}
               /\ \A c \in Calls : calls[c].st \in {"idle", "refused"}))

\* Every Start failed to bind and the server is still Unstarted.
C7_Witness ==
    /\ \A s \in Starters : startRet[s] = "bindErr"
    /\ LifecycleState = "Unstarted"
    /\ srv.lis = {}

StateRank(st) ==
    CASE st = "Unstarted" -> 0 [] st = "Listening" -> 1 [] st = "Draining" -> 2
      [] st = "Stopped" -> 3

\* A Start made in any state but Unstarted binds no socket and leaves s.lis
\* alone, so the server has at most one listening socket over its lifetime.
StartOnlyFromUnstarted ==
    /\ [][\A s \in Starters :
              (LifecycleState # "Unstarted" /\ startPc[s] = "idle") =>
                  (sockets'[s] = "none" /\ s \notin srv'.lis)]_vars
    /\ [](Cardinality({s \in Starters : sockets[s] # "none"}) <= 1)

\* C8: the lifecycle state only moves Unstarted -> Listening -> Draining ->
\* Stopped, one step at a time; and a Start made in any state but Unstarted
\* binds no socket and leaves s.lis alone, so the server has at most one
\* listening socket over its lifetime.
C8_LifecycleOrder ==
    /\ [][\/ LifecycleState' = LifecycleState
           \/ StateRank(LifecycleState') = StateRank(LifecycleState) + 1]_vars
    /\ StartOnlyFromUnstarted

\* C9: any number of Stop calls made at the same time, with calls in flight,
\* all return nil, none faults or hangs, and the server ends in Stopped.
C9_StopIdempotent ==
    /\ [](~crashed)
    /\ [](\A t \in Stoppers :
              stopPc[t] = "returned" =>
                  (stopRet[t] = "nil" /\ LifecycleState = "Stopped"))
    /\ \A t \in Stoppers :
           (stopPc[t] = "draining") ~> (stopPc[t] = "returned")

\* Every Stop call is waiting at the same time, for a call in flight, while
\* Start is in the serve loop or leaving it.
C9_Witness ==
    /\ \A t \in Stoppers : stopPc[t] = "draining"
    /\ \E c \in Calls : Running(c) /\ calls[c].beforeStop
    /\ \E s \in Starters : startPc[s] \in {"serving", "waitDone"}

\* C11: with timeout D, a call whose handler needs longer than D and watches
\* its context returns a deadline-exceeded error at the deadline, not a success
\* after the handler's full duration.
C11_DeadlineExceeded ==
    [][\A c \in Calls :
          (/\ Running(c) /\ Done(c)'
           /\ calls[c].observes
           /\ calls[c].need > srv.timeout
           /\ \A i \in 1..Len(calls[c].log) : calls[c].log[i].ctx.deadline \subseteq
                                                 {calls[c].t0 + srv.timeout})
          => (/\ calls'[c].outcome = DeadlineExceeded
              /\ calls'[c].result \in {DeadlineExceeded, "statusDeadline"}
              /\ now = calls[c].t0 + srv.timeout)]_vars

\* A call under the default chain has ended with the deadline error although
\* its handler had work left.
C11_Witness ==
    /\ NoMiddlewareOption
    /\ \E c \in Calls :
           /\ Done(c)
           /\ calls[c].outcome = DeadlineExceeded
           /\ calls[c].result = "statusDeadline"

\* the value of the last option in os that targets a field, or the default
LastValue(os, field, default) ==
    LET targeting == {i \in 1..Len(os) : os[i].field = field}
    IN  IF targeting = {}
        THEN default
        ELSE os[CHOOSE i \in targeting : \A j \in targeting : j <= i].value

\* C12: for every ordered option list, each configuration field equals the
\* value of the last option targeting that field, or its default (tcp, ":0",
\* one second, status+recovery, none) when no option targets it.
C12_LastOptionWins ==
    /\ srv.network = LastValue(opts, "network", "tcp")
    /\ srv.address = LastValue(opts, "address", ":0")
    /\ srv.timeout = LastValue(opts, "timeout", Second)
    /\ srv.middleware = LastValue(opts, "middleware", Chain("status", <<"recovery">>))
    /\ srv.grpcOpts = LastValue(opts, "grpcOpts", <<>>)

C12_Witness ==
    /\ opts = <<Address(":0"), Address(":9000")>>
    /\ srv.address = ":9000"
    /\ srv.network = "tcp"
    /\ srv.timeout = Second

\* an option that carries a usable value for the field it sets
WellFormed(o) ==
    CASE o.field = "timeout" -> o.value > 0
      [] o.field \in {"network", "address"} -> o.value # ""
      [] OTHER -> TRUE

\* C13 as stated: whatever the options, the configuration has a positive
\* timeout and a non-empty network and address.
C13_ConfigValid ==
    /\ srv.timeout > 0
    /\ srv.network # ""
    /\ srv.address # ""

\* C13 amended: when every Timeout option is positive and every Network and
\* Address option non-empty, the configuration has a positive timeout and a
\* non-empty network and address, defaults included.
C13_WellFormedConfigValid ==
    (\A i \in 1..Len(opts) : WellFormed(opts[i])) => C13_ConfigValid

C13_Witness ==
    /\ opts = <<Network("tcp4"), Timeout(1)>>
    /\ srv.network = "tcp4"
    /\ srv.timeout = 1
    /\ srv.address = ":0"

\* the earliest of a set of deadlines, as an optional value
Earliest(ds) == {d \in ds : \A e \in ds : d <= e}

\* C14: every middleware and the terminal handler of a call get a context with
\* the GRPC transport tag and that call's own info (service handle, full
\* method); its deadline comes from that call's own arrival time and client
\* deadline, and no step of another call changes what the call was handed.
C14_OwnContext ==
    /\ [](\A c \in Calls : Running(c) =>
            \A i \in 1..Len(calls[c].log) :
                calls[c].log[i].stage \in MiddlewareStages \cup {"handler"} =>
                    /\ calls[c].log[i].ctx.transport = {"GRPC"}
                    /\ calls[c].log[i].ctx.info = {[Server |-> "service", FullMethod |-> c]}
                    /\ calls[c].log[i].ctx.deadline \subseteq
                           calls[c].log[1].ctx.deadline \cup {calls[c].t0 + srv.timeout}
                    /\ calls[c].log[i].stage = "handler" =>
                           calls[c].log[i].ctx.deadline =
                               Earliest(calls[c].log[1].ctx.deadline
                                        \cup {calls[c].t0 + srv.timeout}))
    /\ [][\A c \in Calls : Running(c) /\ Running(c)' =>
              /\ calls'[c].log = calls[c].log
              /\ calls'[c].t0 = calls[c].t0]_vars

C14_Witness ==
    /\ NoMiddlewareOption
    /\ \E c, d \in Calls :
          /\ c # d
          /\ Running(c)
          /\ Running(d)
          /\ calls[c].t0 # calls[d].t0
          /\ HandlerDeadline(c) # HandlerDeadline(d)

C15_FailWitness ==
    /\ ep.pc = "returned"
    /\ ep.err = "resolveErr"
    /\ ep.url = <<>>
    /\ LifecycleState = "Unstarted"

\* C16: whatever options the server was built with, a handler's error or
\* panic comes back to the caller as an error result of that call and the
\* process stays up.
C16_FaultStaysInCall ==
    [][\A c \in Calls :
          (Running(c) /\ Done(c)' /\ calls'[c].outcome \in {"rawErr", "panic"})
          => (/\ ~crashed'
              /\ calls'[c].result \in {"rawErr", "statusErr", "recoveredErr"})]_vars

\* C17: Endpoint never reads the listener reference while a Start call is
\* writing it without a lock, and once a Start call is in the accept loop the
\* reference is not written again.
C17_NoUnsynchronizedAccess ==
    /\ [](~Racing)
    /\ [][(\E s \in Starters : startPc[s] \in {"serving", "waitDone"})
              => srv'.lis = srv.lis]_vars

\* C18: the context the timeout interceptor derived for a call is cancelled
\* when the call ends, whether its handler returned a reply, returned an
\* error or panicked: a call in flight holds one derived context, any other
\* call holds none.
C18_DerivedContextReleased ==
    \A c \in Calls :
        /\ Running(c) => calls[c].derived = 1
        /\ ~Running(c) => calls[c].derived = 0

C18_Witness ==
    \E c, d \in Calls :
        /\ Done(c)
        /\ calls[c].outcome = "panic"
        /\ calls[c].derived = 0
        /\ Done(d)
        /\ calls[d].outcome = "rawErr"
        /\ calls[d].derived = 0

\* C19: the timeout interceptor calls the terminal handler once and hands
\* back exactly what it returned, when it returns; a handler that does not
\* watch its context finishes its work and its reply is delivered, also after
\* the deadline has passed.
C19_CooperativeTimeout ==
    [][\A c \in Calls :
          (Running(c) /\ Done(c)') =>
             /\ Cardinality({i \in 1..Len(calls[c].log) :
                                calls[c].log[i].stage = "handler"}) = 1
             /\ calls'[c].enforced = calls'[c].outcome
             /\ ~calls[c].observes =>
                   /\ now >= calls[c].t0 + calls[c].need
                   /\ calls'[c].outcome = "ok"
                   /\ calls'[c].result = "ok"]_vars

C19_Witness ==
    \E c \in Calls :
        /\ Done(c)
        /\ calls[c].late
        /\ calls[c].outcome = "ok"
        /\ calls[c].enforced = "ok"
        /\ calls[c].result = "ok"

\* the configuration part of the server
Config(s) ==
    [network |-> s.network, address |-> s.address, timeout |-> s.timeout,
     middleware |-> s.middleware, grpcOpts |-> s.grpcOpts]

\* the middleware stages a call's log went through, outermost first
MiddlewareOf(log) ==
    SelectSeq([i \in 1..Len(log) |-> log[i].stage], LAMBDA st : st \in MiddlewareStages)

\* C20: no Start, Stop, Endpoint or inbound call changes network, address,
\* timeout, middleware or transport options: they stay what NewServer made of
\* the options, and every call runs the middleware and the timeout fixed then.
C20_ConfigImmutable ==
    /\ [][Config(srv)' = Config(srv) /\ grpcSrv'.interceptors = grpcSrv.interceptors
                                     /\ grpcSrv'.opts = grpcSrv.opts]_vars
    /\ [](/\ Config(srv) = Config(ApplyOptions(DefaultServer, opts))
          /\ \A c \in Calls : Running(c) =>
                /\ MiddlewareOf(calls[c].log) = LastValue(opts, "middleware",
                                                          DefaultMiddleware).layers
                /\ HandlerDeadline(c) = {calls[c].t0 + LastValue(opts, "timeout", Second)})

C20_Witness ==
    /\ opts = <<Timeout(1), Address(":0")>>
    /\ LifecycleState = "Stopped"
    /\ ep.pc = "returned"
    /\ \E c \in Calls : Done(c)
    /\ Config(srv) = [network |-> "tcp", address |-> ":0", timeout |-> 1,
                      middleware |-> DefaultMiddleware, grpcOpts |-> <<>>]
====
